---- MODULE Spec2Model ----
(***************************************************************************)
(* phase03-langgraph: the ReAct agent (react_agent.py), its state          *)
(* (agent_state.py), the LangGraph driver (graph_builder.py) and the       *)
(* checkpoint manager (checkpointer.py).                                   *)
(***************************************************************************)
EXTENDS Naturals, Sequences, FiniteSets, TLC

VARIABLES
    state,            \* the AgentState dict threaded through the steps
    pc,               \* where the driver stands: the node / loop position
    driver,           \* "react" = ReActAgent.run, "graph" = GraphBuilder.run,
                      \* "direct" = step methods called one by one, "api" = manager calls
    runs,             \* runs started so far
    metadata,         \* CheckpointManager.metadata: {"checkpoints": {...}, "order": [...]}
    files,            \* checkpoint_dir: checkpoint id -> pickled CheckpointData dump
    max_checkpoints,  \* CheckpointManager.max_checkpoints
    clock,            \* wall clock, in whole seconds (strftime("%Y%m%d_%H%M%S"))
    trace,            \* history: the step that ran last and what it did
    last,             \* history: the manager call that returned last and its result
    metadata_file,    \* checkpoint_dir/metadata.json, as _load_metadata reads it
    peer              \* <<metadata>> of a second CheckpointManager on the same
                      \* checkpoint_dir, <<>> when there is none

vars == <<state, pc, driver, runs, metadata, files, max_checkpoints, clock, trace, last,
          metadata_file, peer>>

(***************************************************************************)
(* Bounds of the model.                                                    *)
(***************************************************************************)
MaxIter == 6          \* max_iterations ranges over 0..MaxIter
MaxRuns == 2          \* runs in one behaviour: a fresh one, then resumed ones
RunKeep == 1          \* max_checkpoints of a graph run ranges over 0..RunKeep
MaxKeep == 2          \* max_checkpoints of an "api" session ranges over 0..MaxKeep
MaxClock == 1         \* seconds the clock may advance
MaxDirect == 3        \* step methods called in one "direct" session
MaxCalls == 3         \* manager calls in one "api" session

(***************************************************************************)
(* Values.                                                                 *)
(***************************************************************************)
NONE == "None"                       \* Python None, for optional strings
Truthy(v) == v # NONE /\ v # ""      \* bool(v) of an optional string

ERR_REASON == "reason error: llm"                 \* f"推論エラー: {e}"
ERR_NO_PENDING == "no pending action"             \* "実行するアクションが指定されていません"
ERR_ANSWER == "answer error: llm"                 \* f"回答生成エラー: {e}"
ToolError(e) == "tool error: " \o e               \* f"ツール実行エラー: {e}"
NotFound(tool) == "tool '" \o tool \o "' not found"
Apology(e) == "sorry, an error occurred: " \o e   \* f"申し訳ございません。...: {error}"
FALLBACK_ANSWER == "sorry, answer generation failed"
LLM_ANSWER == "generated answer"                  \* response.content of the answer call
LITERAL_ANSWER == "literal answer"                \* thought.final_answer given by the model

\* the tools ToolsManager registers, and what the model may name
Registry == {"calculator", "rag_search", "web_search", "read_file", "write_file"}
Actions == {"calculator", "frobnicate", NONE}
ToolResult(tool) == "result of " \o tool          \* tool.invoke(...) returning

(***************************************************************************)
(* agent_state.py                                                          *)
(***************************************************************************)
create_initial_state(max_iterations) ==
    [messages        |-> <<"human">>,
     current_step    |-> "start",
     next_step       |-> "reason",
     reasoning_steps |-> <<>>,
     tool_calls      |-> <<>>,
     iteration_count |-> 0,
     max_iterations  |-> max_iterations,
     final_answer    |-> NONE,
     error           |-> NONE,
     metadata        |-> [pending_action          |-> <<>>,
                          resumed_from_checkpoint |-> <<>>,
                          last_checkpoint_id      |-> <<>>]]

\* a variant that numbers the steps from 0
add_reasoning_step_from_zero(s, thought, action, observation) ==
    [s EXCEPT !.reasoning_steps =
        Append(@, [cls         |-> "ReasoningStep",
                   step_number |-> Len(s.reasoning_steps),
                   thought     |-> thought,
                   action      |-> action,
                   observation |-> observation])]

\* ReasoningStep(step_number=len(reasoning_steps)+1, ...) appended
add_reasoning_step(s, thought, action, observation) ==
    [s EXCEPT !.reasoning_steps =
        Append(@, [cls         |-> "ReasoningStep",
                   step_number |-> Len(s.reasoning_steps) + 1,
                   thought     |-> thought,
                   action      |-> action,
                   observation |-> observation])]

\* ToolCall(tool_name, arguments, result, error) appended
add_tool_call(s, tool_name, arguments, result, error) ==
    [s EXCEPT !.tool_calls =
        Append(@, [cls       |-> "ToolCall",
                   tool_name |-> tool_name,
                   arguments |-> arguments,
                   result    |-> result,
                   error     |-> error])]

\* a variant that does not look at final_answer
should_continue_without_answer(s) ==
    IF Truthy(s.error) THEN FALSE
    ELSE IF s.iteration_count >= s.max_iterations THEN FALSE
    ELSE TRUE

should_continue(s) ==
    IF Truthy(s.error) THEN FALSE
    ELSE IF Truthy(s.final_answer) THEN FALSE
    ELSE IF s.iteration_count >= s.max_iterations THEN FALSE
    ELSE TRUE

\* format_reasoning_history reads step.step_number, step.thought, ... as
\* attributes: it raises AttributeError on a step that is a plain dict
format_reasoning_history_raises(s) ==
    \E i \in DOMAIN s.reasoning_steps : s.reasoning_steps[i].cls = "dict"

NO_ANSWER == "No answer generated"

\* extract_final_state, lines 267-275: dict.get(key, default) gives the
\* default only when the key is missing, and the stored value otherwise
extract_final_state(s) ==
    [answer          |-> IF "final_answer" \in DOMAIN s THEN s.final_answer
                         ELSE NO_ANSWER,
     reasoning_steps |-> Len(s.reasoning_steps),
     tool_calls      |-> Len(s.tool_calls),
     iterations      |-> s.iteration_count,
     error           |-> s.error,
     metadata        |-> s.metadata]

(***************************************************************************)
(* react_agent.py: the language model's reply to the reason prompt         *)
(***************************************************************************)
NoInput == [kind |-> "none", str |-> "", map |-> {}]
StrInput == [kind |-> "str", str |-> "2 + 2", map |-> {}]
MapInput == [kind |-> "map", str |-> "", map |-> {<<"expression", "2 + 2">>}]

\* kind: "invoke_error" llm.invoke raised; "text" the reply is no JSON
\* (final_phrase: it holds "final answer"); "invalid" JSON that ReActThought
\* rejects; "json" a well-formed thought
Replies ==
    [kind : {"invoke_error", "invalid"}, final_phrase : {FALSE},
     action_needed : {FALSE}, action : {NONE}, action_input : {NoInput},
     is_final_answer : {FALSE}, final_answer : {NONE}]
    \cup
    [kind : {"text"}, final_phrase : BOOLEAN,
     action_needed : {FALSE}, action : {NONE}, action_input : {NoInput},
     is_final_answer : {FALSE}, final_answer : {NONE}]
    \cup
    [kind : {"json"}, final_phrase : {FALSE},
     action_needed : BOOLEAN, action : Actions, action_input : {NoInput},
     is_final_answer : BOOLEAN, final_answer : {NONE, LITERAL_ANSWER}]
    \cup
    [kind : {"json"}, final_phrase : {FALSE},
     action_needed : BOOLEAN, action : {"calculator"}, action_input : {StrInput, MapInput},
     is_final_answer : BOOLEAN, final_answer : {NONE, LITERAL_ANSWER}]

\* lines 228-246: a bare string action_input becomes the tool's argument map
\* a variant that wraps every bare string as {input: s}
CoerceInputGeneric(action_name, action_input) ==
    IF action_input.kind = "str" THEN <<{<<"input", action_input.str>>}>>
    ELSE IF action_input.kind = "map" THEN <<action_input.map>>
    ELSE <<>>

CoerceInput(action_name, action_input) ==
    IF action_input.kind = "str" THEN
        IF action_name = "calculator" THEN <<{<<"expression", action_input.str>>}>>
        ELSE IF action_name = "rag_search" THEN <<{<<"query", action_input.str>>}>>
        ELSE IF action_name = "web_search" THEN <<{<<"query", action_input.str>>}>>
        ELSE IF action_name = "read_file" THEN <<{<<"file_path", action_input.str>>}>>
        ELSE IF action_name = "write_file"
            THEN <<{<<"file_path", "">>, <<"content", action_input.str>>}>>
        ELSE <<{<<"input", action_input.str>>}>>
    ELSE IF action_input.kind = "map" THEN <<action_input.map>>
    ELSE <<>>

\* lines 201-223: does the try block raise before a thought exists
ReplyRaises(r) ==
    \/ r.kind = "invoke_error"
    \/ r.kind = "invalid"
    \/ r.kind = "text" /\ ~r.final_phrase

\* lines 204-253: the ReActThought the reply yields
ThoughtOf(r) ==
    IF r.kind = "text"
    THEN [reasoning |-> "fallback reasoning", action_needed |-> FALSE,
          action |-> NONE, action_input |-> <<>>,
          is_final_answer |-> TRUE, final_answer |-> NONE]
    ELSE [reasoning |-> "model reasoning", action_needed |-> r.action_needed,
          action |-> r.action, action_input |-> CoerceInput(r.action, r.action_input),
          is_final_answer |-> r.is_final_answer, final_answer |-> r.final_answer]

\* a variant that looks at action_needed before is_final_answer
ReasonDecideActionFirst(s, thought) ==
    IF thought.action_needed
    THEN [s EXCEPT !.next_step = "act",
                   !.metadata.pending_action =
                        <<[tool |-> thought.action, input |-> thought.action_input]>>]
    ELSE IF thought.is_final_answer
    THEN [s EXCEPT !.next_step = "answer", !.final_answer = thought.final_answer]
    ELSE [s EXCEPT !.next_step = "observe"]

\* lines 265-273
ReasonDecide(s, thought) ==
    IF thought.is_final_answer
    THEN [s EXCEPT !.next_step = "answer", !.final_answer = thought.final_answer]
    ELSE IF thought.action_needed
    THEN [s EXCEPT !.next_step = "act",
                   !.metadata.pending_action =
                        <<[tool |-> thought.action, input |-> thought.action_input]>>]
    ELSE [s EXCEPT !.next_step = "observe"]

\* a variant that skips the count when the pass routes to answer
ReasonCountSkipsFinal(s) ==
    IF s.next_step = "answer" THEN s ELSE [s EXCEPT !.iteration_count = @ + 1]

\* line 275
ReasonCount(s) == [s EXCEPT !.iteration_count = @ + 1]

\* a variant whose failed pass counts as an iteration
reason_counting_failures(s, r) ==
    IF ReplyRaises(r)
    THEN [s EXCEPT !.error = ERR_REASON, !.next_step = NONE,
                   !.iteration_count = @ + 1]
    ELSE LET thought == ThoughtOf(r)
             s1 == add_reasoning_step(s, thought.reasoning,
                       IF thought.action_needed THEN thought.action ELSE NONE, NONE)
         IN  ReasonCount(ReasonDecide(s1, thought))

\* ReActAgent.reason, lines 199-283 (the part inside try/except)
reason(s, r) ==
    IF ReplyRaises(r)
    THEN [s EXCEPT !.error = ERR_REASON, !.next_step = NONE]
    ELSE LET thought == ThoughtOf(r)
             s1 == add_reasoning_step(s, thought.reasoning,
                       IF thought.action_needed THEN thought.action ELSE NONE, NONE)
         IN  ReasonCount(ReasonDecide(s1, thought))

\* lines 186-197 run before the try: an exception there leaves reason
reason_raises(s) == format_reasoning_history_raises(s)

(***************************************************************************)
(* ReActAgent.act                                                          *)
(***************************************************************************)
\* lines 335-336: the last step's observation, an attribute assignment
\* a variant that writes the observation into the first step
SetObservationOfFirst(s, result) ==
    IF s.reasoning_steps = <<>> THEN s
    ELSE [s EXCEPT !.reasoning_steps[1].observation = result]

SetObservation(s, result) ==
    IF s.reasoning_steps = <<>> THEN s
    ELSE [s EXCEPT !.reasoning_steps[Len(s.reasoning_steps)].observation = result]

SetObservationRaises(s) ==
    s.reasoning_steps # <<>> /\ s.reasoning_steps[Len(s.reasoning_steps)].cls = "dict"

\* lines 366-373
ActFail(s, tool_name, tool_input, e) ==
    [add_tool_call(s, tool_name, tool_input, NONE, e)
        EXCEPT !.error = ToolError(e), !.next_step = NONE]

\* lines 366-370: the except handler builds ToolCall(tool_name=tool_name, ...),
\* and ToolCall.tool_name is a str: with a pending action whose tool is None
\* the handler itself raises and act leaves by exception
act_raises(s) ==
    s.metadata.pending_action # <<>> /\ s.metadata.pending_action[1].tool = NONE

\* a variant that returns the state as it is when nothing is pending
act_silent(s, tool_ok) ==
    IF s.metadata.pending_action = <<>> THEN s
    ELSE [s EXCEPT !.next_step = "observe"]

\* ReActAgent.act, lines 301-375; tool_ok: tool.invoke returned
act(s, tool_ok) ==
    LET pending == s.metadata.pending_action IN
    IF pending = <<>>
    THEN [s EXCEPT !.error = ERR_NO_PENDING, !.next_step = NONE]
    ELSE LET tool_name == pending[1].tool
             tool_input == IF pending[1].input = <<>> THEN {} ELSE pending[1].input[1]
         IN  IF tool_name \notin Registry
             THEN ActFail(s, tool_name, tool_input, NotFound(tool_name))
             ELSE IF ~tool_ok
             THEN ActFail(s, tool_name, tool_input, "tool raised")
             ELSE LET result == ToolResult(tool_name)
                      s1 == add_tool_call(s, tool_name, tool_input, result, NONE)
                  IN  IF SetObservationRaises(s1)
                      THEN ActFail(s1, tool_name, tool_input, "AttributeError")
                      ELSE [SetObservation(s1, result)
                               EXCEPT !.messages = @ \o <<"ai_tool_call", "tool">>,
                                      !.metadata.pending_action = <<>>,
                                      !.next_step = "observe"]

(***************************************************************************)
(* ReActAgent.observe, lines 393-407                                       *)
(***************************************************************************)
\* a variant that does not look at error
observe_ignoring_error(s) ==
    IF s.iteration_count >= s.max_iterations THEN [s EXCEPT !.next_step = "answer"]
    ELSE [s EXCEPT !.next_step = "reason"]

observe(s) ==
    IF s.iteration_count >= s.max_iterations THEN [s EXCEPT !.next_step = "answer"]
    ELSE IF Truthy(s.error) THEN [s EXCEPT !.next_step = "answer"]
    ELSE [s EXCEPT !.next_step = "reason"]

(***************************************************************************)
(* ReActAgent.answer, lines 425-462; llm_ok: llm.invoke returned           *)
(***************************************************************************)
\* line 432 is outside the try and after the final_answer check
answer_raises(s) == ~Truthy(s.final_answer) /\ format_reasoning_history_raises(s)

\* line 445 is reached
answer_invokes_llm(s) == ~Truthy(s.final_answer) /\ ~Truthy(s.error)

\* a variant that tries generation although error is set
answer_ignoring_error(s, llm_ok) ==
    IF Truthy(s.final_answer) THEN s
    ELSE IF llm_ok
    THEN [s EXCEPT !.final_answer = LLM_ANSWER,
                   !.messages = Append(@, "ai_answer"),
                   !.next_step = NONE]
    ELSE [s EXCEPT !.error = ERR_ANSWER,
                   !.final_answer = FALLBACK_ANSWER,
                   !.next_step = NONE]

answer(s, llm_ok) ==
    IF Truthy(s.final_answer) THEN s
    ELSE IF Truthy(s.error) THEN [s EXCEPT !.final_answer = Apology(s.error)]
    ELSE IF llm_ok
    THEN [s EXCEPT !.final_answer = LLM_ANSWER,
                   !.messages = Append(@, "ai_answer"),
                   !.next_step = NONE]
    ELSE [s EXCEPT !.error = ERR_ANSWER,
                   !.final_answer = FALLBACK_ANSWER,
                   !.next_step = NONE]

(***************************************************************************)
(* checkpointer.py.  A manager value m is [metadata, files]; a checkpoint  *)
(* file is named after its id, so files maps ids to the pickled dumps.     *)
(***************************************************************************)
\* lines 106-113: f"checkpoint_{timestamp}_{state_hash}"; the hash is a
\* function of str(state) alone, the timestamp has whole seconds
generate_checkpoint_id(s, now) == [timestamp |-> now, state_hash |-> s]

\* pickle.dump(checkpoint_data.model_dump()) then CheckpointData(**pickle.load()):
\* model_dump turns the pydantic objects held in the state into plain dicts
Dumped(s) ==
    [s EXCEPT !.reasoning_steps = [i \in DOMAIN @ |-> [@[i] EXCEPT !.cls = "dict"]],
              !.tool_calls = [i \in DOMAIN @ |-> [@[i] EXCEPT !.cls = "dict"]]]

RemoveFirst(seq, x) ==
    IF \E i \in DOMAIN seq : seq[i] = x
    THEN LET k == CHOOSE i \in DOMAIN seq :
                    seq[i] = x /\ \A j \in 1..(i - 1) : seq[j] # x
         IN  SubSeq(seq, 1, k - 1) \o SubSeq(seq, k + 1, Len(seq))
    ELSE seq

Without(f, x) == [y \in DOMAIN f \ {x} |-> f[y]]

\* CheckpointManager.delete_checkpoint, lines 273-299: [m, ret]
delete_checkpoint(m, checkpoint_id) ==
    IF checkpoint_id \notin DOMAIN m.metadata.checkpoints
    THEN [m |-> m, ret |-> FALSE]
    ELSE LET unlinked == Without(m.files, checkpoint_id)
             dropped == Without(m.metadata.checkpoints, checkpoint_id)
         IN  IF \E i \in DOMAIN m.metadata.order : m.metadata.order[i] = checkpoint_id
             THEN [m |-> [metadata |-> [checkpoints |-> dropped,
                                        order |-> RemoveFirst(m.metadata.order, checkpoint_id)],
                          files |-> unlinked],
                   ret |-> TRUE]
             \* list.remove raises ValueError, caught at line 296
             ELSE [m |-> [metadata |-> [checkpoints |-> dropped,
                                        order |-> m.metadata.order],
                          files |-> unlinked],
                   ret |-> FALSE]

RECURSIVE DeleteEach(_, _)
DeleteEach(m, ids) ==
    IF ids = <<>> THEN m
    ELSE DeleteEach(delete_checkpoint(m, Head(ids)).m, Tail(ids))

\* CheckpointManager._cleanup_old_checkpoints, lines 308-314
cleanup_old_checkpoints(m, max) ==
    IF Len(m.metadata.order) > max
    THEN LET num_to_delete == Len(m.metadata.order) - max
         IN  DeleteEach(m, SubSeq(m.metadata.order, 1, num_to_delete))
    ELSE m

\* lines 165-174: the index entry and the order list
Register(m, checkpoint_id, step_name, iteration) ==
    [m EXCEPT !.metadata.checkpoints =
                  (checkpoint_id :> [file_path |-> checkpoint_id,
                                     step_name |-> step_name,
                                     iteration |-> iteration]) @@ @,
              !.metadata.order = Append(@, checkpoint_id)]

\* CheckpointManager.save_checkpoint, lines 137-185: [m, ret]
save_checkpoint(m, max, s, step_name, iteration, now) ==
    LET checkpoint_id == generate_checkpoint_id(s, now)
        data == [checkpoint_id |-> checkpoint_id, state |-> Dumped(s),
                 step_name |-> step_name, iteration |-> iteration]
        written == [m EXCEPT !.files = (checkpoint_id :> data) @@ @]
    IN  [m |-> cleanup_old_checkpoints(
                   Register(written, checkpoint_id, step_name, iteration), max),
         ret |-> checkpoint_id]

\* a file that pickle.load or CheckpointData(**data) rejects
Garbage == [garbage |-> TRUE]
Unreadable(f) == "garbage" \in DOMAIN f

\* a variant that hands back whatever the file holds
load_checkpoint_unchecked(m, checkpoint_id) ==
    IF checkpoint_id \notin DOMAIN m.metadata.checkpoints THEN <<>>
    ELSE IF m.metadata.checkpoints[checkpoint_id].file_path \notin DOMAIN m.files THEN <<>>
    ELSE <<m.files[m.metadata.checkpoints[checkpoint_id].file_path]>>

\* what metadata.json holds after a save_checkpoint call that raised: only
\* fault "index" gets as far as the retention pass, and there every
\* delete_checkpoint that removed something wrote the index (line 288)
\* before the final _save_metadata() of line 177 raised
index_after_failed_save(file, m, max, s, step_name, iteration, now, fault) ==
    IF fault # "index" THEN file
    ELSE LET registered == Register(m, generate_checkpoint_id(s, now),
                                    step_name, iteration)
             cleaned == cleanup_old_checkpoints(registered, max)
         IN  IF cleaned.metadata # registered.metadata THEN cleaned.metadata
             ELSE file

\* CheckpointManager.load_checkpoint, lines 205-238: <<>> is None
load_checkpoint(m, checkpoint_id) ==
    IF checkpoint_id \notin DOMAIN m.metadata.checkpoints THEN <<>>
    ELSE IF m.metadata.checkpoints[checkpoint_id].file_path \notin DOMAIN m.files THEN <<>>
    \* lines 221-238: an exception while reading is caught, None returned
    ELSE IF Unreadable(m.files[m.metadata.checkpoints[checkpoint_id].file_path]) THEN <<>>
    ELSE <<m.files[m.metadata.checkpoints[checkpoint_id].file_path]>>

\* delete_checkpoint when a file-system call raises inside its try, lines
\* 278-299.  fault "unlink": file_path.unlink() raises, nothing was changed
\* yet; fault "index": _save_metadata() raises after the file was unlinked
\* and the entry and the order item were removed.  Either way line 299
\* returns False.
delete_checkpoint_io(m, checkpoint_id, fault) ==
    IF checkpoint_id \notin DOMAIN m.metadata.checkpoints
    THEN [m |-> m, ret |-> FALSE]
    ELSE IF fault = "unlink"
    THEN IF m.metadata.checkpoints[checkpoint_id].file_path \in DOMAIN m.files
         THEN [m |-> m, ret |-> FALSE]
         ELSE delete_checkpoint(m, checkpoint_id)
    ELSE [m |-> delete_checkpoint(m, checkpoint_id).m, ret |-> FALSE]

\* save_checkpoint when a file-system call raises inside its try, lines
\* 152-190: the exception is re-raised to the caller.  fault "open": the
\* file cannot be opened, nothing changed; fault "dump": the file was opened
\* for writing (created or truncated) and pickle.dump raises; fault "index":
\* the file is written, the index and the order list are updated and
\* cleaned up, and _save_metadata() raises.
save_checkpoint_io(m, max, s, step_name, iteration, now, fault) ==
    LET checkpoint_id == generate_checkpoint_id(s, now) IN
    IF fault = "open" THEN m
    ELSE IF fault = "dump" THEN [m EXCEPT !.files = (checkpoint_id :> Garbage) @@ @]
    ELSE save_checkpoint(m, max, s, step_name, iteration, now).m

\* _cleanup_old_checkpoints, lines 308-314, when the file-system call of each
\* delete_checkpoint it makes raises (fault as in delete_checkpoint_io)
RECURSIVE DeleteEachIo(_, _, _)
DeleteEachIo(m, ids, fault) ==
    IF ids = <<>> THEN m
    ELSE DeleteEachIo(delete_checkpoint_io(m, Head(ids), fault).m, Tail(ids), fault)

cleanup_old_checkpoints_io(m, max, fault) ==
    IF Len(m.metadata.order) > max
    THEN LET num_to_delete == Len(m.metadata.order) - max
         IN  DeleteEachIo(m, SubSeq(m.metadata.order, 1, num_to_delete), fault)
    ELSE m

\* a variant in which a failed eviction leaves the retention pass by exception
eviction_failure_raised(m, max) == Len(m.metadata.order) > max

\* lines 296-299 and 314: delete_checkpoint answers every exception with
\* False and the loop drops what it returns, so nothing reaches the save
eviction_failure_propagates(m, max) == FALSE

\* save_checkpoint whose retention pass meets failing deletes; the final
\* _save_metadata() of line 180 succeeds.  ret: <<id>>, or <<>> if it raised
save_checkpoint_evict_io(m, max, s, step_name, iteration, now, fault) ==
    LET checkpoint_id == generate_checkpoint_id(s, now)
        data == [checkpoint_id |-> checkpoint_id, state |-> Dumped(s),
                 step_name |-> step_name, iteration |-> iteration]
        written == [m EXCEPT !.files = (checkpoint_id :> data) @@ @]
        registered == Register(written, checkpoint_id, step_name, iteration)
    IN  IF eviction_failure_propagates(registered, max)
        THEN [m |-> registered, ret |-> <<>>]
        ELSE [m |-> cleanup_old_checkpoints_io(registered, max, fault),
              ret |-> <<checkpoint_id>>]

\* CheckpointManager.list_checkpoints, lines 250-258: the ids of the summaries
list_checkpoints(m) ==
    SelectSeq(m.metadata.order, LAMBDA c : c \in DOMAIN m.metadata.checkpoints)

\* CheckpointManager.clear_all_checkpoints, lines 341-346
clear_all_checkpoints(m) ==
    [DeleteEach(m, m.metadata.order)
        EXCEPT !.metadata = [checkpoints |-> <<>>, order |-> <<>>]]

(***************************************************************************)
(* graph_builder.py: routing                                               *)
(***************************************************************************)
\* GraphBuilder._route_after_reason, lines 284-299
\* a variant that looks at next_step = "act" before error
route_after_reason_act_first(s) ==
    IF s.next_step = "act" THEN "act"
    ELSE IF Truthy(s.error) THEN "answer"
    ELSE IF s.next_step = "answer" THEN "answer"
    ELSE IF ~should_continue(s) THEN "answer"
    ELSE "checkpoint"

route_after_reason(s) ==
    IF Truthy(s.error) THEN "answer"
    ELSE IF s.next_step = "act" THEN "act"
    ELSE IF s.next_step = "answer" THEN "answer"
    ELSE IF ~should_continue(s) THEN "answer"
    ELSE "checkpoint"

\* a variant that makes the modulo check before the termination check
route_after_observe_modulo_first(s) ==
    IF Truthy(s.error) THEN "answer"
    ELSE IF s.next_step = "reason" THEN "reason"
    ELSE IF s.next_step = "answer" THEN "answer"
    ELSE IF s.iteration_count % 5 = 0 THEN "checkpoint"
    ELSE IF ~should_continue(s) THEN "answer"
    ELSE "reason"

\* GraphBuilder._route_after_observe, lines 315-333
route_after_observe(s) ==
    IF Truthy(s.error) THEN "answer"
    ELSE IF s.next_step = "reason" THEN "reason"
    ELSE IF s.next_step = "answer" THEN "answer"
    ELSE IF ~should_continue(s) THEN "answer"
    ELSE IF s.iteration_count % 5 = 0 THEN "checkpoint"
    ELSE "reason"

(***************************************************************************)
(* The state machine.                                                      *)
(***************************************************************************)
DEFAULT_MAX_CHECKPOINTS == 10     \* CheckpointManager.__init__, max_checkpoints
Manager == [metadata |-> metadata, files |-> files]

Ended == {"end", "done", "raised", "refused"}

\* str(e) of the exception that left the step named
ExceptionText(step) == "exception in " \o step
DegradedAnswer(e) == "an error occurred: " \o e     \* f"エラーが発生しました: {e}"

\* a variant of what run hands back that lets a graph exception through
RunResultPropagating ==
    IF pc \in {"done", "end"}
    THEN [kind |-> "returned", summary |-> extract_final_state(state)]
    ELSE IF pc \in {"raised", "refused"} THEN [kind |-> "raised"]
    ELSE [kind |-> "running"]

\* what run hands back to its caller.  ReActAgent.run, lines 528-531, has no
\* try around the loop; GraphBuilder.run, lines 409-451, catches what the
\* graph raises and returns a dict built from the exception's text; its
\* ValueError of line 391 is raised outside that try
RunResult ==
    IF pc \in {"done", "end"}
    THEN [kind |-> "returned", summary |-> extract_final_state(state)]
    ELSE IF pc = "raised" /\ driver = "graph"
    THEN [kind |-> "returned",
          summary |-> [answer          |-> DegradedAnswer(ExceptionText(trace.step)),
                       error           |-> ExceptionText(trace.step),
                       reasoning_steps |-> 0,
                       tool_calls      |-> 0,
                       iterations      |-> 0]]
    ELSE IF pc \in {"raised", "refused"} THEN [kind |-> "raised"]
    ELSE [kind |-> "running"]

\* history of the run in progress
NewTrace(s) ==
    [step |-> "begin", ok |-> TRUE, llm |-> FALSE, tail |-> FALSE,
     reasons |-> 0, acts |-> 0, reasons_ok |-> 0, calls |-> 0,
     base |-> s.iteration_count, flip |-> FALSE, resume |-> <<>>, out |-> <<>>]

Ran(step, ok, llm) ==
    [trace EXCEPT !.step = step, !.ok = ok, !.llm = llm, !.tail = FALSE,
                  !.reasons = IF step = "reason" THEN @ + 1 ELSE @,
                  !.reasons_ok = IF step = "reason" /\ ok THEN @ + 1 ELSE @,
                  !.acts = IF step = "act" THEN @ + 1 ELSE @,
                  !.calls = IF driver = "direct" THEN @ + 1 ELSE @,
                  !.flip = IF driver = "react" THEN ~@ ELSE @]

\* history of the manager: the call that returned last (op, its id argument or
\* returned id, its boolean result, what load returned), every id returned by a
\* save so far in order, and whether a delete or clear call was made
NoCall ==
    [op |-> "none", id |-> <<>>, ret |-> FALSE, loaded |-> <<>>,
     issued |-> {}, saved |-> <<>>, removed |-> FALSE, args |-> <<>>,
     gone |-> {}]

\* the arguments of a save_checkpoint call
SaveArgs(s, step_name, iteration) ==
    <<[state |-> s, step_name |-> step_name, iteration |-> iteration]>>

Init ==
    /\ driver \in {"react", "graph", "direct"}
    /\ \E m \in 0..MaxIter : state = create_initial_state(m)
    /\ pc = IF driver = "react" THEN "loop"
            ELSE IF driver = "graph" THEN "start" ELSE "direct"
    /\ runs = 1
    /\ metadata = [checkpoints |-> <<>>, order |-> <<>>]
    /\ files = <<>>
    /\ max_checkpoints \in IF driver = "graph" THEN 0..RunKeep
                            ELSE {DEFAULT_MAX_CHECKPOINTS}
    /\ clock = 0
    /\ trace = NewTrace(state)
    /\ last = NoCall
    /\ metadata_file = [checkpoints |-> <<>>, order |-> <<>>]
    /\ peer = <<>>

ManagerUnchanged ==
    UNCHANGED <<metadata, files, max_checkpoints, clock, last, metadata_file, peer>>
RunUnchanged == UNCHANGED <<driver, runs>>

(***************************************************************************)
(* ReActAgent.run, lines 504-521: one action is one pass of the while loop *)
(***************************************************************************)
\* lines 518-521, then the loop condition of line 504
LoopTail(s1, step, ok, llm) ==
    IF Truthy(s1.error) /\ ~Truthy(s1.final_answer)
    THEN IF answer_raises(s1)
         THEN /\ state' = s1
              /\ pc' = "raised"
              /\ trace' = [Ran(step, ok, llm) EXCEPT !.tail = TRUE]
         ELSE /\ state' = answer(s1, TRUE)
              /\ pc' = "done"
              /\ trace' = [Ran(step, ok, llm) EXCEPT !.tail = TRUE]
    ELSE /\ state' = s1
         /\ pc' = IF Truthy(s1.next_step) THEN "loop" ELSE "done"
         /\ trace' = Ran(step, ok, llm)

Raise(step) ==
    /\ pc' = "raised"
    /\ trace' = Ran(step, FALSE, FALSE)
    /\ UNCHANGED state

ReactReason ==
    /\ driver = "react" /\ pc = "loop" /\ state.next_step = "reason"
    /\ IF reason_raises(state) THEN Raise("reason")
       ELSE \E r \in Replies : LoopTail(reason(state, r), "reason", ~ReplyRaises(r), TRUE)
    /\ ManagerUnchanged /\ RunUnchanged

ReactAct ==
    /\ driver = "react" /\ pc = "loop" /\ state.next_step = "act"
    /\ IF act_raises(state) THEN Raise("act")
       ELSE \E tool_ok \in BOOLEAN :
               LET s1 == act(state, tool_ok)
               IN  LoopTail(s1, "act", s1.next_step = "observe", FALSE)
    /\ ManagerUnchanged /\ RunUnchanged

ReactObserve ==
    /\ driver = "react" /\ pc = "loop" /\ state.next_step = "observe"
    /\ LoopTail(observe(state), "observe", TRUE, FALSE)
    /\ ManagerUnchanged /\ RunUnchanged

ReactAnswer ==
    /\ driver = "react" /\ pc = "loop" /\ state.next_step = "answer"
    /\ IF answer_raises(state) THEN Raise("answer")
       ELSE IF answer_invokes_llm(state)
       THEN \E llm_ok \in BOOLEAN : LoopTail(answer(state, llm_ok), "answer", llm_ok, TRUE)
       ELSE LoopTail(answer(state, TRUE), "answer", TRUE, FALSE)
    /\ ManagerUnchanged /\ RunUnchanged

(***************************************************************************)
(* GraphBuilder: the compiled graph, one action per node with its edge     *)
(***************************************************************************)
\* _start_node, lines 168-177; edge start -> reason
GraphStart ==
    /\ driver = "graph" /\ pc = "start"
    /\ pc' = "reason"
    /\ trace' = Ran("start", TRUE, FALSE)
    /\ UNCHANGED state
    /\ ManagerUnchanged /\ RunUnchanged

\* _reason_node and the conditional edge of lines 117-126
GraphReason ==
    /\ driver = "graph" /\ pc = "reason"
    /\ IF reason_raises(state) THEN Raise("reason")
       ELSE \E r \in Replies :
               /\ state' = reason(state, r)
               /\ pc' = route_after_reason(state')
               /\ trace' = Ran("reason", ~ReplyRaises(r), TRUE)
    /\ ManagerUnchanged /\ RunUnchanged

\* _act_node; edge act -> observe
GraphAct ==
    /\ driver = "graph" /\ pc = "act"
    /\ IF act_raises(state) THEN Raise("act")
       ELSE \E tool_ok \in BOOLEAN :
               /\ state' = act(state, tool_ok)
               /\ pc' = "observe"
               /\ trace' = Ran("act", state'.next_step = "observe", FALSE)
    /\ ManagerUnchanged /\ RunUnchanged

\* _observe_node and the conditional edge of lines 132-141
GraphObserve ==
    /\ driver = "graph" /\ pc = "observe"
    /\ state' = observe(state)
    /\ pc' = route_after_observe(state')
    /\ trace' = Ran("observe", TRUE, FALSE)
    /\ ManagerUnchanged /\ RunUnchanged

\* a variant of the edge that goes straight to END
edge_after_answer_to_end == "end"

\* _build_graph, lines 143-147: add_edge("answer", "checkpoint") and
\* add_edge("checkpoint", END)
edge_after_answer == "checkpoint"
edge_after_checkpoint == "end"

\* _answer_node; edge answer -> checkpoint
GraphAnswer ==
    /\ driver = "graph" /\ pc = "answer"
    /\ IF answer_raises(state) THEN Raise("answer")
       ELSE /\ pc' = edge_after_answer
            /\ IF answer_invokes_llm(state)
               THEN \E llm_ok \in BOOLEAN :
                       /\ state' = answer(state, llm_ok)
                       /\ trace' = Ran("answer", llm_ok, TRUE)
               ELSE /\ state' = answer(state, TRUE)
                    /\ trace' = Ran("answer", TRUE, FALSE)
    /\ ManagerUnchanged /\ RunUnchanged

\* a variant that reports a failed save in the state
checkpoint_node_reporting(s, saved) ==
    IF saved = <<>> THEN [s EXCEPT !.error = "checkpoint save failed"]
    ELSE [s EXCEPT !.metadata.last_checkpoint_id = saved]

\* _checkpoint_node, lines 251-268: saved is <<id>> when save_checkpoint
\* returned id, <<>> when it raised (the except branch only logs)
checkpoint_node(s, saved) ==
    IF saved = <<>> THEN s
    ELSE [s EXCEPT !.metadata.last_checkpoint_id = saved]

\* _checkpoint_node, lines 251-268; edge checkpoint -> END
GraphCheckpoint ==
    /\ driver = "graph" /\ pc = "checkpoint"
    /\ \E now \in clock..MaxClock :
          LET r == save_checkpoint(Manager, max_checkpoints, state,
                                   state.current_step, state.iteration_count, now)
          IN  /\ clock' = now
              /\ metadata' = r.m.metadata
              /\ files' = r.m.files
              /\ metadata_file' = r.m.metadata
              /\ state' = checkpoint_node(state, <<r.ret>>)
              /\ last' = [last EXCEPT !.op = "save", !.id = <<r.ret>>, !.ret = TRUE,
                                       !.loaded = <<>>,
                                       !.issued = @ \cup {r.ret},
                                       !.saved = Append(@, r.ret),
                                       !.args = SaveArgs(state, state.current_step,
                                                         state.iteration_count)]
    /\ pc' = edge_after_checkpoint
    /\ trace' = Ran("checkpoint", TRUE, FALSE)
    /\ UNCHANGED <<max_checkpoints, peer>>
    /\ RunUnchanged

\* _checkpoint_node when save_checkpoint raises; edge checkpoint -> END
GraphCheckpointFails ==
    /\ driver = "graph" /\ pc = "checkpoint"
    /\ \E now \in clock..MaxClock, fault \in {"open", "dump", "index"} :
          LET m == save_checkpoint_io(Manager, max_checkpoints, state,
                                      state.current_step, state.iteration_count,
                                      now, fault)
          IN  /\ clock' = now
              /\ metadata' = m.metadata
              /\ files' = m.files
              /\ metadata_file' =
                     index_after_failed_save(metadata_file, Manager, max_checkpoints,
                         state, state.current_step, state.iteration_count, now, fault)
              /\ state' = checkpoint_node(state, <<>>)
              /\ last' = [last EXCEPT !.op = "save_failed", !.id = <<>>,
                                       !.ret = FALSE, !.loaded = <<>>,
                                       !.args = SaveArgs(state, state.current_step,
                                                         state.iteration_count)]
    /\ pc' = edge_after_checkpoint
    /\ trace' = Ran("checkpoint", FALSE, FALSE)
    /\ UNCHANGED <<max_checkpoints, peer>>
    /\ RunUnchanged

(***************************************************************************)
(* The step methods called one by one, as the examples do                  *)
(***************************************************************************)
Direct(step) ==
    /\ driver = "direct" /\ pc = "direct"
    /\ trace.calls < MaxDirect
    /\ ManagerUnchanged /\ RunUnchanged

DirectReason ==
    /\ Direct("reason")
    /\ IF reason_raises(state) THEN Raise("reason")
       ELSE \E r \in Replies :
               /\ state' = reason(state, r)
               /\ trace' = Ran("reason", ~ReplyRaises(r), TRUE)
               /\ UNCHANGED pc

DirectAct ==
    /\ Direct("act")
    /\ IF act_raises(state) THEN Raise("act")
       ELSE \E tool_ok \in BOOLEAN :
               /\ state' = act(state, tool_ok)
               /\ trace' = Ran("act", state'.next_step = "observe", FALSE)
               /\ UNCHANGED pc

DirectObserve ==
    /\ Direct("observe")
    /\ state' = observe(state)
    /\ trace' = Ran("observe", TRUE, FALSE)
    /\ UNCHANGED pc

DirectAnswer ==
    /\ Direct("answer")
    /\ IF answer_raises(state) THEN Raise("answer")
       ELSE /\ UNCHANGED pc
            /\ IF answer_invokes_llm(state)
               THEN \E llm_ok \in BOOLEAN :
                       /\ state' = answer(state, llm_ok)
                       /\ trace' = Ran("answer", llm_ok, TRUE)
               ELSE /\ state' = answer(state, TRUE)
                    /\ trace' = Ran("answer", TRUE, FALSE)

(***************************************************************************)
(* A further run: GraphBuilder.run resuming from a checkpoint id           *)
(***************************************************************************)
\* a variant that falls back to a fresh state
run_resume_or_fresh(m, checkpoint_id) ==
    LET checkpoint_data == load_checkpoint(m, checkpoint_id)
    IN  IF checkpoint_data # <<>>
        THEN <<[checkpoint_data[1].state EXCEPT
                   !.metadata.resumed_from_checkpoint = <<checkpoint_id>>]>>
        ELSE <<create_initial_state(MaxIter)>>

\* GraphBuilder.run, lines 381-391: <<initial_state>>, or <<>> for
\* raise ValueError(f"Checkpoint {checkpoint_id} not found")
run_resume(m, checkpoint_id) ==
    LET checkpoint_data == load_checkpoint(m, checkpoint_id)
    IN  IF checkpoint_data # <<>>
        THEN <<[checkpoint_data[1].state EXCEPT
                   !.metadata.resumed_from_checkpoint = <<checkpoint_id>>]>>
        ELSE <<>>

\* GraphBuilder.run(query, checkpoint_id=...), lines 381-391
BeginResume ==
    /\ pc \in Ended /\ runs < MaxRuns
    /\ runs' = runs + 1
    /\ driver' = "graph"
    /\ \E checkpoint_id \in last.issued :
          LET initial_state == run_resume(Manager, checkpoint_id)
          IN  IF initial_state # <<>>
              THEN /\ state' = initial_state[1]
                   /\ pc' = "start"
                   /\ trace' = [NewTrace(state') EXCEPT !.resume = <<checkpoint_id>>]
              ELSE /\ pc' = "refused"
                   /\ trace' = [NewTrace(state) EXCEPT !.step = "refused", !.ok = FALSE,
                                                       !.resume = <<checkpoint_id>>]
                   /\ UNCHANGED state
    /\ ManagerUnchanged

(***************************************************************************)
(* The manager called directly, as examples/demo_checkpointer.py does      *)
(***************************************************************************)
\* the states a client saves: a fresh state whose iteration_count it sets,
\* and one that holds a reasoning step
SaveStates ==
    {[create_initial_state(MaxIter) EXCEPT !.iteration_count = i] : i \in 0..1}
    \cup {add_reasoning_step(create_initial_state(MaxIter),
                             "test thought", "test_action", "test result")}

StepNames == {"test_step", "step_2"}

InitApi ==
    /\ driver = "api"
    /\ pc = "api"
    /\ state \in SaveStates
    /\ runs = 0
    /\ metadata = [checkpoints |-> <<>>, order |-> <<>>]
    /\ files = <<>>
    /\ max_checkpoints \in 0..MaxKeep
    /\ clock = 0
    /\ trace = NewTrace(state)
    /\ last = NoCall
    /\ metadata_file = [checkpoints |-> <<>>, order |-> <<>>]
    /\ peer = <<>>

Api ==
    /\ driver = "api" /\ pc = "api"
    /\ trace.calls < MaxCalls
    /\ trace' = [trace EXCEPT !.calls = @ + 1]
    /\ UNCHANGED <<pc, driver, runs, max_checkpoints, peer>>

\* manager.save_checkpoint(state, step_name, iteration)
ApiSave ==
    /\ Api
    /\ \E s \in SaveStates, step_name \in StepNames, now \in clock..MaxClock :
          LET r == save_checkpoint(Manager, max_checkpoints, s, step_name,
                                   s.iteration_count, now)
          IN  /\ state' = s
              /\ clock' = now
              /\ metadata' = r.m.metadata
              /\ files' = r.m.files
              /\ metadata_file' = r.m.metadata
              /\ last' = [last EXCEPT !.op = "save", !.id = <<r.ret>>, !.ret = TRUE,
                                       !.loaded = <<>>,
                                       !.issued = @ \cup {r.ret},
                                       !.saved = Append(@, r.ret),
                                       !.args = SaveArgs(s, step_name, s.iteration_count)]

\* manager.delete_checkpoint(checkpoint_id)
ApiDelete ==
    /\ Api
    /\ \E checkpoint_id \in last.issued :
          LET r == delete_checkpoint(Manager, checkpoint_id)
          IN  /\ metadata' = r.m.metadata
              /\ files' = r.m.files
              /\ metadata_file' = IF r.ret THEN r.m.metadata ELSE metadata_file
              /\ last' = [last EXCEPT !.op = "delete", !.id = <<checkpoint_id>>,
                                       !.ret = r.ret, !.loaded = <<>>,
                                       !.removed = TRUE]
    /\ UNCHANGED <<state, clock>>

\* manager.load_checkpoint(checkpoint_id)
ApiLoad ==
    /\ Api
    /\ \E checkpoint_id \in last.issued :
          LET r == load_checkpoint(Manager, checkpoint_id)
          IN  last' = [last EXCEPT !.op = "load", !.id = <<checkpoint_id>>,
                                   !.ret = (r # <<>>), !.loaded = r]
    /\ UNCHANGED <<state, clock, metadata, files, metadata_file>>

\* manager.clear_all_checkpoints()
ApiClear ==
    /\ Api
    /\ LET m == clear_all_checkpoints(Manager)
       IN  /\ metadata' = m.metadata
           /\ files' = m.files
           /\ metadata_file' = m.metadata
    /\ last' = [last EXCEPT !.op = "clear", !.id = <<>>, !.ret = TRUE,
                             !.loaded = <<>>, !.removed = TRUE]
    /\ UNCHANGED <<state, clock>>

NextApi == ApiSave \/ ApiDelete \/ ApiLoad \/ ApiClear

SpecApi == InitApi /\ [][NextApi]_vars

(***************************************************************************)
(* Two CheckpointManager instances on one checkpoint_dir.  Each loaded     *)
(* metadata.json in its __init__ (line 67) and from then on works on its   *)
(* own in-memory copy, which _save_metadata writes out whole (lines 83-90).*)
(* Instance 1 keeps its copy in metadata, instance 2 in peer.              *)
(***************************************************************************)
Instance(i) ==
    [metadata |-> IF i = 1 THEN metadata ELSE peer[1], files |-> files]

InitShared ==
    /\ driver = "shared"
    /\ pc = "shared"
    /\ state = create_initial_state(MaxIter)
    /\ runs = 0
    /\ metadata = [checkpoints |-> <<>>, order |-> <<>>]
    /\ peer = <<[checkpoints |-> <<>>, order |-> <<>>]>>
    /\ metadata_file = [checkpoints |-> <<>>, order |-> <<>>]
    /\ files = <<>>
    /\ max_checkpoints \in 0..MaxKeep
    /\ clock = 0
    /\ trace = NewTrace(state)
    /\ last = NoCall

Shared ==
    /\ driver = "shared" /\ pc = "shared"
    /\ trace.calls < MaxCalls
    /\ trace' = [trace EXCEPT !.calls = @ + 1]
    /\ UNCHANGED <<pc, driver, runs, max_checkpoints>>

\* instance i: save_checkpoint(state, step_name, iteration)
SharedSave ==
    /\ Shared
    /\ \E i \in {1, 2}, s \in SaveStates, now \in clock..MaxClock :
          LET before == Instance(i)
              r == save_checkpoint(before, max_checkpoints, s, "test_step",
                                   s.iteration_count, now)
              evicted == (DOMAIN before.metadata.checkpoints \cup {r.ret})
                             \ DOMAIN r.m.metadata.checkpoints
          IN  /\ state' = s
              /\ clock' = now
              /\ metadata' = IF i = 1 THEN r.m.metadata ELSE metadata
              /\ peer' = IF i = 2 THEN <<r.m.metadata>> ELSE peer
              /\ files' = r.m.files
              /\ metadata_file' = r.m.metadata
              /\ last' = [last EXCEPT !.op = "save", !.id = <<r.ret>>, !.ret = TRUE,
                                       !.loaded = <<>>,
                                       !.issued = @ \cup {r.ret},
                                       !.saved = Append(@, r.ret),
                                       !.args = SaveArgs(s, "test_step", s.iteration_count),
                                       !.gone = (@ \ {r.ret}) \cup evicted]

\* instance i: delete_checkpoint(checkpoint_id)
SharedDelete ==
    /\ Shared
    /\ \E i \in {1, 2}, checkpoint_id \in last.issued :
          LET r == delete_checkpoint(Instance(i), checkpoint_id)
          IN  /\ metadata' = IF i = 1 THEN r.m.metadata ELSE metadata
              /\ peer' = IF i = 2 THEN <<r.m.metadata>> ELSE peer
              /\ files' = r.m.files
              /\ metadata_file' = IF r.ret THEN r.m.metadata ELSE metadata_file
              /\ last' = [last EXCEPT !.op = "delete", !.id = <<checkpoint_id>>,
                                       !.ret = r.ret, !.loaded = <<>>,
                                       !.removed = TRUE,
                                       !.gone = IF r.ret THEN @ \cup {checkpoint_id} ELSE @]
    /\ UNCHANGED <<state, clock>>

NextShared == SharedSave \/ SharedDelete

SpecShared == InitShared /\ [][NextShared]_vars

(***************************************************************************)
(* The manager when the file system misbehaves                             *)
(***************************************************************************)
\* manager.save_checkpoint(...) raising
ApiSaveFails ==
    /\ Api
    /\ \E s \in SaveStates, step_name \in StepNames, now \in clock..MaxClock,
          fault \in {"open", "dump", "index"} :
          LET m == save_checkpoint_io(Manager, max_checkpoints, s, step_name,
                                      s.iteration_count, now, fault)
          IN  /\ state' = s
              /\ clock' = now
              /\ metadata' = m.metadata
              /\ files' = m.files
              /\ metadata_file' =
                     index_after_failed_save(metadata_file, Manager, max_checkpoints,
                         s, step_name, s.iteration_count, now, fault)
              /\ last' = [last EXCEPT !.op = "save_failed", !.id = <<>>,
                                       !.ret = FALSE, !.loaded = <<>>,
                                       !.args = SaveArgs(s, step_name, s.iteration_count)]

\* manager.save_checkpoint(state, step_name, iteration) over the retention
\* bound, with the deletes of the retention pass failing
ApiSaveEvictionFails ==
    /\ Api
    /\ Len(metadata.order) + 1 > max_checkpoints
    /\ \E s \in SaveStates, step_name \in StepNames, now \in clock..MaxClock,
          fault \in {"unlink", "index"} :
          LET r == save_checkpoint_evict_io(Manager, max_checkpoints, s, step_name,
                                            s.iteration_count, now, fault)
          IN  /\ state' = s
              /\ clock' = now
              /\ metadata' = r.m.metadata
              /\ files' = r.m.files
              /\ metadata_file' = IF r.ret # <<>> THEN r.m.metadata ELSE metadata_file
              /\ last' = [last EXCEPT !.op = "save_evicting", !.id = r.ret,
                                       !.ret = (r.ret # <<>>), !.loaded = <<>>,
                                       !.issued = @ \cup {r.ret[i] : i \in DOMAIN r.ret},
                                       !.saved = @ \o r.ret,
                                       !.args = SaveArgs(s, step_name, s.iteration_count)]

\* manager.delete_checkpoint(checkpoint_id) with a failing file-system call
ApiDeleteFails ==
    /\ Api
    /\ \E checkpoint_id \in last.issued, fault \in {"unlink", "index"} :
          LET r == delete_checkpoint_io(Manager, checkpoint_id, fault)
          IN  /\ metadata' = r.m.metadata
              /\ files' = r.m.files
              /\ metadata_file' = IF r.ret THEN r.m.metadata ELSE metadata_file
              /\ last' = [last EXCEPT !.op = "delete", !.id = <<checkpoint_id>>,
                                       !.ret = r.ret, !.loaded = <<>>,
                                       !.removed = TRUE]
    /\ UNCHANGED <<state, clock>>

\* a checkpoint file removed from checkpoint_dir behind the manager's back
FileLost ==
    /\ Api
    /\ \E c \in DOMAIN files : files' = Without(files, c)
    /\ last' = [last EXCEPT !.op = "none"]
    /\ UNCHANGED <<state, clock, metadata, metadata_file>>

\* a checkpoint file overwritten with bytes that do not unpickle
FileCorrupted ==
    /\ Api
    /\ \E c \in DOMAIN files : ~Unreadable(files[c]) /\ files' = [files EXCEPT ![c] = Garbage]
    /\ last' = [last EXCEPT !.op = "none"]
    /\ UNCHANGED <<state, clock, metadata, metadata_file>>

Next ==
    \/ ReactReason \/ ReactAct \/ ReactObserve \/ ReactAnswer
    \/ GraphStart \/ GraphReason \/ GraphAct \/ GraphObserve \/ GraphAnswer
    \/ GraphCheckpoint
    \/ DirectReason \/ DirectAct \/ DirectObserve \/ DirectAnswer
    \/ BeginResume

Spec == Init /\ [][Next]_vars

(***************************************************************************)
(* The functions called once on a state built by hand, as                  *)
(* examples/demo_agent_state.py and examples/demo_graph_builder.py do      *)
(***************************************************************************)
\* the states handed in: create_initial_state with fields overwritten
ProbeStates ==
    {[create_initial_state(m) EXCEPT !.iteration_count = i, !.error = e,
                                     !.final_answer = f, !.next_step = n] :
        m \in 0..MaxIter, i \in 0..MaxIter,
        e \in {NONE, "", ERR_REASON}, f \in {NONE, "", LITERAL_ANSWER},
        n \in {NONE, "reason", "act", "observe", "answer"}}

\* the replies handed to reason: every tool name with every kind of input
ProbeReplies ==
    Replies \cup
    [kind : {"json"}, final_phrase : {FALSE},
     action_needed : BOOLEAN, action : Registry \cup {"frobnicate", NONE},
     action_input : {NoInput, StrInput, MapInput},
     is_final_answer : BOOLEAN, final_answer : {NONE, LITERAL_ANSWER}]

InitPure ==
    /\ driver = "probe"
    /\ pc = "probe"
    /\ state \in ProbeStates
    /\ runs = 0
    /\ metadata = [checkpoints |-> <<>>, order |-> <<>>]
    /\ files = <<>>
    /\ max_checkpoints = DEFAULT_MAX_CHECKPOINTS
    /\ clock = 0
    /\ trace = NewTrace(state)
    /\ last = NoCall
    /\ metadata_file = [checkpoints |-> <<>>, order |-> <<>>]
    /\ peer = <<>>

\* one call; step names the function, out holds what it returned
Probe(step, out) ==
    /\ driver = "probe" /\ pc = "probe"
    /\ pc' = "probed"
    /\ trace' = [trace EXCEPT !.step = step, !.out = out]
    /\ ManagerUnchanged /\ RunUnchanged

ProbeShouldContinue ==
    /\ Probe("should_continue", <<should_continue(state)>>)
    /\ UNCHANGED state

ProbeRouteAfterReason ==
    /\ Probe("route_after_reason", <<route_after_reason(state)>>)
    /\ UNCHANGED state

ProbeRouteAfterObserve ==
    /\ Probe("route_after_observe", <<route_after_observe(state)>>)
    /\ UNCHANGED state

ProbeReason ==
    /\ state.next_step = "reason"
    /\ \E r \in ProbeReplies :
          /\ Probe("reason", <<r>>)
          /\ state' = reason(state, r)

NextPure ==
    \/ ProbeShouldContinue \/ ProbeRouteAfterReason \/ ProbeRouteAfterObserve
    \/ ProbeReason

SpecPure == InitPure /\ [][NextPure]_vars

\* every driver, with the file-system faults
InitIO == Init \/ InitApi
NextIO ==
    \/ Next \/ NextApi
    \/ GraphCheckpointFails
    \/ ApiSaveFails \/ ApiSaveEvictionFails \/ ApiDeleteFails
    \/ FileLost \/ FileCorrupted

SpecIO == InitIO /\ [][NextIO]_vars

\* ReActAgent.run is a plain while loop: a pass that can run does run
FairSpec ==
    /\ Spec
    /\ WF_vars(ReactReason) /\ WF_vars(ReactAct)
    /\ WF_vars(ReactObserve) /\ WF_vars(ReactAnswer)

(***************************************************************************)
(* Properties.                                                             *)
(***************************************************************************)
InRun == driver \in {"react", "graph"}
Count(seq, x) == Cardinality({i \in DOMAIN seq : seq[i] = x})
LastN(seq, n) == SubSeq(seq, Len(seq) - n + 1, Len(seq))

\* C1: ReActAgent.run terminates for every sequence of model and tool
\* replies: the while loop is left after finitely many passes, also when a
\* reason pass returned is_final_answer with literal answer text.
C1_RunTerminates == (driver = "react" /\ pc = "loop") ~> (pc \in {"done", "raised"})

\* C2: every graph execution reaches the terminal marker (it is never left
\* by an exception), and for max_iterations = M >= 1 reason runs at most M
\* times and act at most M times in it.
C2_GraphRunEnds ==
    (driver = "graph" /\ state.max_iterations >= 1) =>
        /\ pc # "raised"
        /\ trace.reasons <= state.max_iterations
        /\ trace.acts <= state.max_iterations

\* C3: once more than max_checkpoints checkpoints were saved (and nothing
\* else was called), list_checkpoints lists exactly the max_checkpoints most
\* recently saved ids in insertion order and no evicted id is loadable.
C3_Retention ==
    (driver = "api" /\ ~last.removed /\ Len(last.saved) > max_checkpoints) =>
        /\ list_checkpoints(Manager) = LastN(last.saved, max_checkpoints)
        /\ \A i \in 1..(Len(last.saved) - max_checkpoints) :
               load_checkpoint(Manager, last.saved[i]) = <<>>

\* C4: iteration_count <= max_iterations in every state between the steps
\* of a run, for every max_iterations (0 included), fresh or resumed.
C4_IterationBound == InRun => state.iteration_count <= state.max_iterations

\* C5: after N successful reason passes of a run iteration_count is N more
\* than at its start (N for a fresh run): a successful pass adds exactly 1,
\* every other step and a failed pass add nothing.
C5_IterationCount == state.iteration_count = trace.base + trace.reasons_ok

C5_Witness ==
    /\ trace.reasons_ok = 2 /\ trace.base = 0 /\ trace.acts = 1
    /\ trace.step = "checkpoint" /\ state.final_answer = LITERAL_ANSWER

\* C6: reasoning_steps[i].step_number = i+1 (0-based i) at every index, in
\* the live state and in every stored snapshot.
StepsNumbered(s) ==
    \A i \in DOMAIN s.reasoning_steps : s.reasoning_steps[i].step_number = i

C6_StepNumbering ==
    /\ StepsNumbered(state)
    /\ \A c \in DOMAIN files : StepsNumbered(files[c].state)

C6_Witness ==
    /\ Len(state.reasoning_steps) = 2
    /\ state.reasoning_steps[1].observation # NONE
    /\ \E c \in DOMAIN files : Len(files[c].state.reasoning_steps) = 2

\* C7: every execution of the act step in a run appends exactly one
\* ToolCall, with exactly one of result and error, and afterwards the last
\* ReasoningStep, if any, holds the stringified tool result as observation.
C7_ToolCallAccounting ==
    [][(InRun /\ trace'.acts = trace.acts + 1) =>
          /\ Len(state'.tool_calls) = Len(state.tool_calls) + 1
          /\ LET call == state'.tool_calls[Len(state'.tool_calls)]
             IN  /\ (call.result # NONE) # (call.error # NONE)
                 /\ state'.reasoning_steps # <<>> =>
                        /\ call.result # NONE
                        /\ state'.reasoning_steps[Len(state'.reasoning_steps)].observation
                               = call.result]_vars

\* C8: right after save_checkpoint returned id c, list_checkpoints holds c
\* exactly once; right after delete_checkpoint(c) returned, list_checkpoints
\* does not hold c and load_checkpoint(c) is none.  (max_checkpoints >= 1.)
C8_ListAfterSaveDelete ==
    (driver = "api" /\ max_checkpoints >= 1) =>
        /\ last.op = "save" => Count(list_checkpoints(Manager), last.id[1]) = 1
        /\ last.op = "delete" =>
               /\ Count(list_checkpoints(Manager), last.id[1]) = 0
               /\ load_checkpoint(Manager, last.id[1]) = <<>>

\* C9: every save_checkpoint call returns an id that was not in the index
\* before the call, also for the same state content in the same second.
C9_FreshId ==
    [][(last'.op = "save" /\ trace'.calls = trace.calls + 1) =>
          last'.id[1] \notin DOMAIN metadata.checkpoints]_vars

\* the answer step of a run is about to execute
AtAnswer ==
    \/ driver = "graph" /\ pc = "answer"
    \/ driver = "react" /\ pc = "loop" /\ state.next_step = "answer"

C11_ActFailureReported ==
    [][/\ (/\ trace'.acts = trace.acts + 1
            /\ state.metadata.pending_action # <<>>
            /\ ~trace'.ok) =>
              /\ pc' # "raised"
              /\ Len(state'.tool_calls) = Len(state.tool_calls) + 1
              /\ state'.tool_calls[Len(state'.tool_calls)].error # NONE
              /\ Truthy(state'.error)
              /\ state'.next_step = NONE
       /\ (/\ InRun /\ pc' \in {"done", "end"}
            /\ state'.tool_calls # <<>>
            /\ state'.tool_calls[Len(state'.tool_calls)].error # NONE) =>
              /\ RunResult'.summary.error # NONE
              /\ RunResult'.summary.answer = Apology(state'.error)]_vars

\* C12: the summary of a finished run never has a null answer: a final
\* state whose final_answer is None yields "No answer generated".
C12_AnswerNeverNull ==
    (InRun /\ pc \in {"done", "end"}) => RunResult.summary.answer # NONE

\* a manager call of the "api" session has just returned
Called(op) == last'.op = op /\ trace'.calls = trace.calls + 1

\* C13: load_checkpoint returns none when the id is not in the index, and
\* when the entry exists but its file is missing or unreadable; it changes
\* neither the index nor the stored files.
C13_LoadNotFound ==
    [][Called("load") =>
          LET c == last'.id[1]
              absent == c \notin DOMAIN metadata.checkpoints
              path == metadata.checkpoints[c].file_path
          IN  /\ (absent \/ path \notin DOMAIN files \/ Unreadable(files[path]))
                     => last'.loaded = <<>>
              /\ metadata' = metadata
              /\ files' = files]_vars

C13_Witness ==
    /\ last.op = "load" /\ last.loaded = <<>>
    /\ last.id[1] \in DOMAIN metadata.checkpoints
    /\ metadata.checkpoints[last.id[1]].file_path \in DOMAIN files
    /\ Unreadable(files[metadata.checkpoints[last.id[1]].file_path])

\* C14: delete_checkpoint on an id not in the index returns false and
\* changes nothing; a delete that returns true has removed the file and the
\* index entry, and a delete that returns false has removed neither.
C14_DeleteAllOrNothing ==
    [][Called("delete") =>
          LET c == last'.id[1]
          IN  /\ c \notin DOMAIN metadata.checkpoints =>
                     ~last'.ret /\ metadata' = metadata /\ files' = files
              /\ last'.ret =>
                     c \notin DOMAIN metadata'.checkpoints /\ c \notin DOMAIN files'
              /\ ~last'.ret =>
                     metadata' = metadata /\ files' = files]_vars

\* C15: right after save_checkpoint(s, step, i) returned id c (with
\* max_checkpoints >= 1), load_checkpoint(c) is a record whose state equals
\* s and whose step_name and iteration equal step and i; and no call changes
\* what an id loads as long as the id stays loadable.
C15_SaveLoadRoundTrip ==
    [][/\ (Called("save") /\ max_checkpoints >= 1) =>
             LET loaded == load_checkpoint(Manager', last'.id[1])
                 given == last'.args[1]
             IN  /\ loaded # <<>>
                 /\ loaded[1].state = given.state
                 /\ loaded[1].step_name = given.step_name
                 /\ loaded[1].iteration = given.iteration
       /\ \A c \in last.issued :
             (load_checkpoint(Manager, c) # <<>> /\ load_checkpoint(Manager', c) # <<>>)
                => load_checkpoint(Manager', c) = load_checkpoint(Manager, c)]_vars

\* C16: GraphBuilder.run with a checkpoint_id that load_checkpoint cannot
\* return raises to its caller (no degraded result), before any graph step
\* runs and without creating a fresh state.
C16_ResumeUnknownRaises ==
    [][(runs' = runs + 1 /\ load_checkpoint(Manager, trace'.resume[1]) = <<>>) =>
          /\ pc' = "refused"
          /\ RunResult'.kind = "raised"
          /\ state' = state
          /\ trace'.reasons = 0 /\ trace'.acts = 0
          /\ metadata' = metadata /\ files' = files]_vars

C16_Witness ==
    /\ pc = "refused" /\ runs = 2
    /\ load_checkpoint(Manager, trace.resume[1]) = <<>>
    /\ RunResult.kind = "raised"

\* C17: when the graph raises during GraphBuilder.run, run returns a
\* summary whose error is non-null and whose answer carries the error text.
C17_GraphErrorDegraded ==
    (driver = "graph" /\ pc = "raised") =>
        /\ RunResult.kind = "returned"
        /\ RunResult.summary.error # NONE
        /\ RunResult.summary.error = ExceptionText(trace.step)
        /\ RunResult.summary.answer = DegradedAnswer(RunResult.summary.error)

C17_Witness ==
    /\ driver = "graph" /\ pc = "raised" /\ trace.step = "act"
    /\ RunResult.summary.error = ExceptionText("act")

\* C18: a save_checkpoint failure inside the checkpoint step does not abort
\* the graph run and does not set error: the step leaves the state as it
\* was (no last_checkpoint_id recorded) and the run goes on to its next node.
C18_CheckpointFailureIgnored ==
    [][(driver = "graph" /\ pc = "checkpoint" /\ last'.op = "save_failed") =>
          /\ state' = state
          /\ state'.metadata.last_checkpoint_id = <<>>
          /\ pc' = edge_after_checkpoint]_vars

C18_Witness ==
    /\ driver = "graph" /\ pc = "end" /\ trace.step = "checkpoint"
    /\ last.op = "save_failed"
    /\ state.error = NONE /\ state.metadata.last_checkpoint_id = <<>>

\* C19: each time a continuing graph run completes an iteration whose
\* iteration_count is a multiple of 5, a checkpoint is saved before the next
\* reasoning pass: observe never hands over to reason at such a count.
C19_PeriodicCheckpoint ==
    [][(driver = "graph" /\ pc = "observe" /\ pc' = "reason") =>
          state'.iteration_count % 5 # 0]_vars

\* C20: every answer step of a graph run is immediately followed by a
\* checkpoint save attempt of the resulting state (final_answer set), and
\* that by the terminal marker.
C20_AnswerThenCheckpoint ==
    [][/\ (driver = "graph" /\ pc = "answer") =>
             /\ pc' = "checkpoint"
             /\ state'.final_answer # NONE
       /\ (driver = "graph" /\ pc = "checkpoint" /\ trace.step = "answer") =>
             /\ trace'.step = "checkpoint"
             /\ last'.op \in {"save", "save_failed"}
             /\ last'.args[1].state = state
             /\ state.final_answer # NONE
             /\ pc' = "end"]_vars

C20_Witness ==
    /\ driver = "graph" /\ pc = "end" /\ trace.step = "checkpoint"
    /\ last.op = "save" /\ state.final_answer = LLM_ANSWER
    /\ last.args[1].state.final_answer = LLM_ANSWER

\* C21: when two CheckpointManager instances on one checkpoint directory
\* interleave save_checkpoint and delete_checkpoint calls, every checkpoint
\* saved by either and neither deleted nor evicted is in the persisted index
\* and in its order list.
C21_NoLostIndexUpdate ==
    driver = "shared" =>
        \A c \in last.issued \ last.gone :
            /\ c \in DOMAIN metadata_file.checkpoints
            /\ \E k \in DOMAIN metadata_file.order : metadata_file.order[k] = c

\* C22: should_continue(state) is false if and only if error is set, or
\* final_answer is set, or iteration_count >= max_iterations; it changes no
\* field of the state.  A field is set when it holds a value that is
\* neither None nor the empty string.
C22_ShouldContinue ==
    [][trace'.step = "should_continue" =>
          /\ trace'.out[1] =
                ~(\/ Truthy(state.error)
                  \/ Truthy(state.final_answer)
                  \/ state.iteration_count >= state.max_iterations)
          /\ state' = state]_vars

C22_Witness ==
    /\ trace.step = "should_continue" /\ trace.out = <<FALSE>>
    /\ state.error = NONE /\ state.final_answer = LITERAL_ANSWER
    /\ state.iteration_count < state.max_iterations

\* C23: once final_answer holds a value, no later step of the same run or of
\* a run resumed from a checkpoint of it changes it.
C23_FinalAnswerImmutable ==
    [][(/\ driver \in {"react", "graph"}
        /\ Truthy(state.final_answer)
        /\ runs' = runs)
       => state'.final_answer = state.final_answer]_vars

\* C24: every pass through the answer step leaves next_step = None.
C24_AnswerClearsNextStep ==
    [][(/\ driver \in {"react", "graph"}
        /\ \/ AtAnswer /\ pc' # "raised"
           \/ trace'.tail /\ ~trace.tail)
       => state'.next_step = NONE]_vars

\* C25: in a graph run, a checkpoint that was not reached from the answer
\* step is not followed by the terminal marker.
C25_EndOnlyAfterAnswer ==
    [][(driver = "graph" /\ pc = "checkpoint" /\ trace.step # "answer")
       => pc' # "end"]_vars

\* C26: after a successful reason pass next_step is answer if the thought has
\* is_final_answer (also when it has action_needed, and then no pending
\* action is stored); otherwise act, with pending_action holding the tool
\* name and the coerced input, if it has action_needed; otherwise observe.
C26_ReasonDecision ==
    [][(trace'.step = "reason" /\ ~ReplyRaises(trace'.out[1])) =>
          LET thought == ThoughtOf(trace'.out[1])
          IN  IF thought.is_final_answer
              THEN /\ state'.next_step = "answer"
                   /\ state'.metadata.pending_action = state.metadata.pending_action
              ELSE IF thought.action_needed
              THEN /\ state'.next_step = "act"
                   /\ state'.metadata.pending_action =
                         <<[tool |-> thought.action, input |-> thought.action_input]>>
              ELSE /\ state'.next_step = "observe"
                   /\ state'.metadata.pending_action = state.metadata.pending_action]_vars

C26_Witness ==
    /\ trace.step = "reason" /\ trace.out # <<>>
    /\ trace.out[1].kind = "json"
    /\ trace.out[1].is_final_answer /\ trace.out[1].action_needed
    /\ trace.out[1].action = "calculator"
    /\ state.next_step = "answer"
    /\ state.metadata.pending_action = <<>>

\* C27: _route_after_reason changes nothing and returns answer if error is
\* set (also when next_step is act); else act if next_step = act; else answer
\* if next_step = answer; else answer if should_continue is false; else
\* checkpoint.
C27_RouteAfterReason ==
    [][trace'.step = "route_after_reason" =>
          /\ state' = state
          /\ trace'.out[1] =
                IF Truthy(state.error) THEN "answer"
                ELSE IF state.next_step = "act" THEN "act"
                ELSE IF state.next_step = "answer" THEN "answer"
                ELSE IF \/ Truthy(state.final_answer)
                        \/ state.iteration_count >= state.max_iterations
                     THEN "answer"
                ELSE "checkpoint"]_vars

C27_Witness ==
    /\ trace.step = "route_after_reason" /\ trace.out = <<"answer">>
    /\ state.error = ERR_REASON /\ state.next_step = "act"

\* C28: _route_after_observe changes nothing and returns answer if error is
\* set; else reason if next_step = reason; else answer if next_step = answer;
\* else answer if should_continue is false; else checkpoint if
\* iteration_count mod 5 = 0; else reason.
C28_RouteAfterObserve ==
    [][trace'.step = "route_after_observe" =>
          /\ state' = state
          /\ trace'.out[1] =
                IF Truthy(state.error) THEN "answer"
                ELSE IF state.next_step = "reason" THEN "reason"
                ELSE IF state.next_step = "answer" THEN "answer"
                ELSE IF \/ Truthy(state.final_answer)
                        \/ state.iteration_count >= state.max_iterations
                     THEN "answer"
                ELSE IF state.iteration_count % 5 = 0 THEN "checkpoint"
                ELSE "reason"]_vars

\* the termination check wins over the modulo check
C28_Witness ==
    /\ trace.step = "route_after_observe" /\ trace.out = <<"answer">>
    /\ state.error = NONE /\ state.next_step = "observe"
    /\ state.iteration_count = 5 /\ state.max_iterations = 5

\* C29: the observe step sets next_step to answer if iteration_count >=
\* max_iterations, else to answer if error is set, else to reason; it calls
\* no language model and changes no other field of the state.
C29_ObserveFrame ==
    [][(\/ driver = "graph" /\ pc = "observe"
        \/ driver = "direct" /\ trace'.step = "observe"
              /\ trace'.calls = trace.calls + 1)
       => /\ state' = [state EXCEPT !.next_step =
                          IF state.iteration_count >= state.max_iterations THEN "answer"
                          ELSE IF Truthy(state.error) THEN "answer"
                          ELSE "reason"]
          /\ ~trace'.llm]_vars

C29_Witness ==
    /\ driver = "graph" /\ trace.step = "observe"
    /\ state.next_step = "answer"
    /\ Truthy(state.error) /\ state.iteration_count < state.max_iterations
    /\ state.reasoning_steps # <<>> /\ state.tool_calls # <<>>

\* C30: when action_input is a bare string s, the pending action reason
\* stores has input {expression: s} for calculator, {query: s} for rag_search
\* and web_search, {file_path: s} for read_file and {input: s} for a tool
\* name outside the per-tool mapping; a map-valued action_input is stored
\* unchanged.
C30_InputCoercion ==
    [][(/\ trace'.step = "reason"
        /\ trace'.out[1].kind = "json"
        /\ trace'.out[1].action_needed /\ ~trace'.out[1].is_final_answer)
       => LET r == trace'.out[1]
              s == r.action_input.str
              pending == state'.metadata.pending_action
          IN  /\ pending # <<>>
              /\ pending[1].tool = r.action
              /\ (r.action_input.kind = "str" /\ r.action = "calculator")
                    => pending[1].input = <<{<<"expression", s>>}>>
              /\ (r.action_input.kind = "str" /\ r.action \in {"rag_search", "web_search"})
                    => pending[1].input = <<{<<"query", s>>}>>
              /\ (r.action_input.kind = "str" /\ r.action = "read_file")
                    => pending[1].input = <<{<<"file_path", s>>}>>
              /\ (r.action_input.kind = "str" /\ r.action \notin Registry)
                    => pending[1].input = <<{<<"input", s>>}>>
              /\ r.action_input.kind = "map"
                    => pending[1].input = <<r.action_input.map>>]_vars

C30_Witness ==
    /\ trace.step = "reason" /\ trace.out # <<>>
    /\ trace.out[1].kind = "json" /\ trace.out[1].action = "read_file"
    /\ trace.out[1].action_input = StrInput
    /\ state.next_step = "act"
    /\ state.metadata.pending_action =
          <<[tool |-> "read_file", input |-> <<{<<"file_path", "2 + 2">>}>>]>>

\* C31: once error is set in a run, fresh or resumed from a checkpoint that
\* carries an error, no reason or act step executes any more in that run.
C31_NoStepAfterError ==
    [][(/\ driver \in {"react", "graph"}
        /\ Truthy(state.error)
        /\ runs' = runs)
       => /\ trace'.reasons = trace.reasons
          /\ trace'.acts = trace.acts]_vars

\* the act step executes in this step without leaving by exception
ActRuns ==
    /\ trace'.acts = trace.acts + 1
    /\ pc' # "raised"

\* C32: act executed with no pending action in metadata invokes no tool, sets
\* error (so it is no silent no-op) and next_step = None, and does not raise;
\* the graph then routes through observe to answer.
C32_ActWithoutPending ==
    [][(trace'.acts = trace.acts + 1 /\ state.metadata.pending_action = <<>>)
       => /\ pc' # "raised"
          /\ state'.tool_calls = state.tool_calls
          /\ state'.error = ERR_NO_PENDING
          /\ state'.next_step = NONE
          /\ route_after_observe(observe(state')) = "answer"]_vars

C32_Witness ==
    /\ driver = "direct" /\ trace.step = "act" /\ trace.acts = 1
    /\ state.error = ERR_NO_PENDING /\ state.next_step = NONE
    /\ state.tool_calls = <<>>

\* C33: after act has executed a pending tool call, metadata holds no pending
\* action, whether the call succeeded or failed.
C33_PendingCleared ==
    [][(ActRuns /\ state.metadata.pending_action # <<>>)
       => state'.metadata.pending_action = <<>>]_vars

\* C34: after each step s of a run returns, current_step = s.
C34_CurrentStep ==
    (/\ driver \in {"react", "graph"}
     /\ trace.step \in {"start", "reason", "act", "observe", "answer"}
     /\ pc # "raised")
    => state.current_step = trace.step

\* C37: the reason step never raises to its caller.
C37_ReasonNeverRaises ==
    [][trace'.reasons = trace.reasons + 1 => pc' # "raised"]_vars

\* old is an initial segment of new
IsPrefix(old, new) ==
    /\ Len(old) <= Len(new)
    /\ \A i \in DOMAIN old : new[i] = old[i]

\* C36: within a run messages, reasoning_steps and tool_calls only grow by
\* appending: every existing entry stays where and what it was, except that
\* act may set the observation of the last ReasoningStep present.
C36_AppendOnly ==
    [][(driver \in {"react", "graph", "direct"} /\ runs' = runs) =>
          LET old == state.reasoning_steps
              new == state'.reasoning_steps
              n == Len(old)
          IN  /\ IsPrefix(state.messages, state'.messages)
              /\ IsPrefix(state.tool_calls, state'.tool_calls)
              /\ IsPrefix(SubSeq(old, 1, n - 1), new)
              /\ n > 0 =>
                    /\ Len(new) >= n
                    /\ new[n] = [old[n] EXCEPT !.observation = new[n].observation]
                    /\ new[n] # old[n] => trace'.acts = trace.acts + 1]_vars

\* act filled in the second step's observation and left the first step alone
C36_Witness ==
    /\ trace.step = "act" /\ trace.acts = 2
    /\ Len(state.reasoning_steps) = 2 /\ Len(state.tool_calls) = 2
    /\ state.reasoning_steps[1].observation = ToolResult("calculator")
    /\ state.reasoning_steps[2].observation = ToolResult("calculator")
    /\ Len(state.messages) = 5

\* C39: in every state of a run started from create_initial_state,
\* len(reasoning_steps) = iteration_count and len(tool_calls) <=
\* iteration_count.
C39_StepsMatchCount ==
    (driver \in {"react", "graph"} /\ runs = 1) =>
        /\ Len(state.reasoning_steps) = state.iteration_count
        /\ Len(state.tool_calls) <= state.iteration_count

\* a run that acted after each of two passes and then failed a third pass
C39_Witness ==
    /\ driver \in {"react", "graph"} /\ runs = 1
    /\ trace.reasons = 3 /\ trace.reasons_ok = 2
    /\ Len(state.reasoning_steps) = 2 /\ Len(state.tool_calls) = 2
    /\ state.error = ERR_REASON

\* C38: after any sequence of save, delete and clear calls on one manager the
\* order list holds no id twice and the set of its ids is the key set of the
\* checkpoints map, so list_checkpoints and get_latest_checkpoint never name
\* an id that load_checkpoint treats as unknown.
C38_IndexConsistent ==
    driver = "api" =>
        /\ \A i, j \in DOMAIN metadata.order :
               metadata.order[i] = metadata.order[j] => i = j
        /\ {metadata.order[i] : i \in DOMAIN metadata.order}
               = DOMAIN metadata.checkpoints

\* C40: when save_checkpoint raises, the manager's in-memory index and order
\* list are what they were before the call.
C40_FailedSaveLeavesIndex ==
    [][Called("save_failed") => metadata' = metadata]_vars

====
